---- MODULE Spec2Model ----
(***************************************************************************)
(* easy-jsonrpc: the JSONRPCServer trait (handle_call, handle_parsed,      *)
(* handle_raw), the parameter binder get_rpc_args, the InvalidArgs -> Error *)
(* conversion, try_serialize, and the `handle` function the jsonrpc_server  *)
(* macro generates, instantiated for the Adder trait of the test module.    *)
(*                                                                          *)
(* Every entry point is a function of its arguments: a behaviour is one    *)
(* call.  Init draws the entry point and its arguments, the entry point's   *)
(* action computes what the code returns and records the invocations of    *)
(* `handle` and of the target methods it made on the way.                   *)
(***************************************************************************)
EXTENDS Integers, Sequences, FiniteSets, TLC

VARIABLES
  phase,     \* "call": the entry point is about to run; "ret": it has returned
  entry,     \* the entry point called
  names,     \* get_rpc_args: the schema
  params,    \* get_rpc_args: the payload
  bound,     \* get_rpc_args: the Result returned
  call,      \* handle_call: the Call
  output,    \* handle_call: the Option<Output> returned
  request,   \* handle_parsed: the Request
  response,  \* handle_parsed: the Option<Response> returned
  rawIn,     \* handle_raw: the request text
  rawOut,    \* handle_raw: the Option<String> returned
  handled,   \* the invocations of handle, in order: <<method, params>>
  invoked,   \* the invocations of target methods, in order: <<method, args>>
  events     \* handle entered, left or panicked, in order: <<what, method, params>>

vars == <<phase, entry, names, params, bound, call, output, request, response,
          rawIn, rawOut, handled, invoked, events>>

(***************************************************************************)
(* Bounds of the model.                                                    *)
(***************************************************************************)
MaxNum == 2      \* numbers in parameter payloads are 1..MaxNum
MaxArgs == 2     \* positional payloads and schemas have at most MaxArgs entries
MaxId == 2       \* numeric ids are 1..MaxId
MaxBatch == 3    \* a batch has at most MaxBatch units

(***************************************************************************)
(* Option<T>: None is the empty sequence, Some(x) the one-element sequence. *)
(***************************************************************************)
None == <<>>
Some(x) == <<x>>
IsSome(o) == Len(o) = 1
Unwrap(o) == o[1]

Ok(x) == <<"Ok", x>>
Err(e) == <<"Err", e>>
IsOk(r) == r[1] = "Ok"
IsErr(r) == r[1] = "Err"

(***************************************************************************)
(* serde_json::Value.  An object is modelled with one member, which is all *)
(* the results of the Adder methods need.                                   *)
(***************************************************************************)
Null == <<"null">>
Num(n) == <<"num", n>>
Str(s) == <<"str", s>>
Arr(a) == <<"arr", a>>
Obj(k, v) == <<"obj", k, v>>

\* the values that occur in parameter payloads
Values == {Num(n) : n \in 1..MaxNum} \cup {Arr(<<1>>)}

(***************************************************************************)
(* jsonrpc_core::Params.  A Map is a function from its keys to values; its  *)
(* iteration order is the order of the keys (serde_json::Map is a BTreeMap),*)
(* given here by the position of the key in SortedKeys.                     *)
(***************************************************************************)
SortedKeys == <<"a", "b", "lst", "notanarg">>
ParamKeys == {SortedKeys[i] : i \in 1..Len(SortedKeys)}
KeyIndex(k) == CHOOSE i \in 1..Len(SortedKeys) : SortedKeys[i] = k

ParamsArray(ar) == <<"Array", ar>>
ParamsMap(ma) == <<"Map", ma>>
ParamsNone == <<"None">>

SeqsUpTo(S, n) == UNION {[1..k -> S] : k \in 0..n}

ArrayParams == {ParamsArray(ar) : ar \in SeqsUpTo(Values, MaxArgs)}
MapParams == {ParamsMap(ma) : ma \in UNION {[K -> Values] : K \in SUBSET ParamKeys}}
AllParams == ArrayParams \cup MapParams \cup {ParamsNone}

\* ma.remove(key): the map without the key
MapRemove(ma, key) == [k \in (DOMAIN ma) \ {key} |-> ma[k]]
\* ma.keys().next(): the first key in iteration order
FirstKey(ma) == CHOOSE k \in DOMAIN ma : \A j \in DOMAIN ma : KeyIndex(k) <= KeyIndex(j)

(***************************************************************************)
(* InvalidArgs                                                              *)
(***************************************************************************)
WrongNumberOfArgs(e, a) == [kind |-> "WrongNumberOfArgs", expected |-> e, actual |-> a]
ExtraNamedParameter(n) == [kind |-> "ExtraNamedParameter", name |-> n]
MissingNamedParameter(n) == [kind |-> "MissingNamedParameter", name |-> n]
InvalidArgStructure(n, i) == [kind |-> "InvalidArgStructure", name |-> n, index |-> i]

(***************************************************************************)
(* get_rpc_args                                                             *)
(***************************************************************************)
\* MapArgs without the check for keys left in the map
RECURSIVE MapArgsNoExtraCheck(_, _, _, _)
MapArgsNoExtraCheck(nms, ma, i, ar) ==
  IF i > Len(nms)
    THEN Ok(ar)
    ELSE IF nms[i] \in DOMAIN ma
           THEN MapArgsNoExtraCheck(nms, MapRemove(ma, nms[i]), i + 1, Append(ar, ma[nms[i]]))
           ELSE Err(MissingNamedParameter(nms[i]))

\* MapArgs going on to the next name when one is missing
RECURSIVE MapArgsSkipMissing(_, _, _, _)
MapArgsSkipMissing(nms, ma, i, ar) ==
  IF i > Len(nms)
    THEN IF DOMAIN ma # {}
           THEN Err(ExtraNamedParameter(FirstKey(ma)))
           ELSE Ok(ar)
    ELSE IF nms[i] \in DOMAIN ma
           THEN MapArgsSkipMissing(nms, MapRemove(ma, nms[i]), i + 1, Append(ar, ma[nms[i]]))
           ELSE MapArgsSkipMissing(nms, ma, i + 1, ar)

\* the values of a map in its iteration order
RECURSIVE MapValues(_)
MapValues(ma) ==
  IF DOMAIN ma = {} THEN <<>>
  ELSE <<ma[FirstKey(ma)]>> \o MapValues(MapRemove(ma, FirstKey(ma)))

\* MapArgs returning the values in the map's iteration order
MapArgsIterOrder(nms, ma, i, ar) ==
  IF \E k \in 1..Len(nms) : nms[k] \notin DOMAIN ma
    THEN Err(MissingNamedParameter(
               nms[CHOOSE k \in 1..Len(nms) :
                     /\ nms[k] \notin DOMAIN ma
                     /\ \A j \in 1..(k - 1) : nms[j] \in DOMAIN ma]))
  ELSE IF \E k \in DOMAIN ma : \A j \in 1..Len(nms) : nms[j] # k
    THEN Err(ExtraNamedParameter(
               FirstKey([k \in {x \in DOMAIN ma : \A j \in 1..Len(nms) : nms[j] # x}
                           |-> ma[k]])))
  ELSE Ok(MapValues(ma))

\* the `for name in names.iter()` loop over a Params::Map, from position i with
\* the values pushed so far in ar: the first name that ma.remove does not find
\* ends it with MissingNamedParameter; after the loop a key left in the map ends
\* it with ExtraNamedParameter
RECURSIVE MapArgs(_, _, _, _)
MapArgs(nms, ma, i, ar) ==
  IF i > Len(nms)
    THEN IF DOMAIN ma # {}
           THEN Err(ExtraNamedParameter(FirstKey(ma)))
           ELSE Ok(ar)
    ELSE IF nms[i] \in DOMAIN ma
           THEN MapArgs(nms, MapRemove(ma, nms[i]), i + 1, Append(ar, ma[nms[i]]))
           ELSE Err(MissingNamedParameter(nms[i]))

\* get_rpc_args without its final length check
CheckLenOmitted(nms, ar) == Ok(ar)

\* the final length check on the argument list
CheckLen(nms, ar) ==
  IF Len(ar) # Len(nms)
    THEN Err(WrongNumberOfArgs(Len(ar), Len(nms)))
    ELSE Ok(ar)

\* the length check applies to what the match on params evaluates to; an early
\* return from the Map arm skips it
CheckArm(nms, r) == IF IsErr(r) THEN r ELSE CheckLen(nms, r[2])

\* get_rpc_args returning the empty list for an absent payload without the check
get_rpc_args_NoneUnchecked(nms, ps) ==
  CASE ps[1] = "Array" -> CheckArm(nms, Ok(ps[2]))
    [] ps[1] = "Map" -> CheckArm(nms, MapArgs(nms, ps[2], 1, <<>>))
    [] ps[1] = "None" -> Ok(<<>>)

get_rpc_args(nms, ps) ==
  CASE ps[1] = "Array" -> CheckArm(nms, Ok(ps[2]))
    [] ps[1] = "Map" -> CheckArm(nms, MapArgs(nms, ps[2], 1, <<>>))
    [] ps[1] = "None" -> CheckArm(nms, Ok(<<>>))

(***************************************************************************)
(* jsonrpc_core::Error and the conversion of InvalidArgs into it            *)
(***************************************************************************)
Error(c, m) == [code |-> c, message |-> m, data |-> None]
InvalidRequest == <<"InvalidRequest">>
MethodNotFound == <<"MethodNotFound">>
InvalidParams == <<"InvalidParams">>
ServerError(n) == <<"ServerError", n>>

invalid_request == Error(InvalidRequest, "Invalid request")
method_not_found == Error(MethodNotFound, "Method not found")
invalid_params(m) == Error(InvalidParams, m)

\* impl Into<Error> for InvalidArgs
into(e) ==
  CASE e.kind = "WrongNumberOfArgs" ->
         invalid_params("WrongNumberOfArgs. Expected " \o ToString(e.expected)
                        \o ". Actual " \o ToString(e.actual))
    [] e.kind = "ExtraNamedParameter" ->
         invalid_params("ExtraNamedParameter " \o e.name)
    [] e.kind = "MissingNamedParameter" ->
         invalid_params("MissingNamedParameter " \o e.name)
    [] e.kind = "InvalidArgStructure" ->
         invalid_params("InvalidArgStructure " \o e.name \o " at position "
                        \o ToString(e.index) \o ".")

(***************************************************************************)
(* try_serialize.  A Rust value is tagged with its type; serde_json renders *)
(* () and Option::None as null, Option::Some(x) as x, Result as an object   *)
(* with the one member "Ok" or "Err".  A value whose Serialize fails (a     *)
(* poisoned Mutex) gives the server error 8.                                *)
(***************************************************************************)
\* a Result variant around its serialized content
Variant(k, inner) == IF IsOk(inner) THEN Ok(Obj(k, inner[2])) ELSE inner

RECURSIVE to_value(_)
to_value(t) ==
  CASE t[1] = "isize" -> Ok(Num(t[2]))
    [] t[1] = "String" -> Ok(Str(t[2]))
    [] t[1] = "unit" -> Ok(Null)
    [] t[1] = "Vec" -> Ok(Arr(t[2]))
    [] t[1] = "Option" -> IF IsSome(t[2]) THEN to_value(Unwrap(t[2])) ELSE Ok(Null)
    [] t[1] = "Result" -> Variant(t[2], to_value(t[3]))
    [] OTHER -> Err("poisoned lock: another task failed inside")

\* .map_err(|e| Error { code: ServerError(8), message, data: None })
SerializeError(r) ==
  IF IsOk(r) THEN r
  ELSE Err(Error(ServerError(8), "Error serializing response. " \o r[2]))

try_serialize(t) == SerializeError(to_value(t))

(***************************************************************************)
(* The Adder trait of the test module and its implementation AdderImpl.     *)
(* The numbers of the model are far below isize::MAX, where checked_add and *)
(* wrapping_add are both the sum.                                           *)
(***************************************************************************)
Adder ==
  << [name |-> "checked_add",  args |-> <<"a", "b">>, types |-> <<"isize", "isize">>],
     [name |-> "wrapping_add", args |-> <<"a", "b">>, types |-> <<"isize", "isize">>],
     [name |-> "greet",        args |-> <<>>,         types |-> <<>>],
     [name |-> "swallow",      args |-> <<>>,         types |-> <<>>],
     [name |-> "repeat_list",  args |-> <<"lst">>,    types |-> <<"Vec<usize>">>],
     [name |-> "fail",         args |-> <<>>,         types |-> <<>>],
     [name |-> "succeed",      args |-> <<>>,         types |-> <<>>] >>

Registered == {Adder[i].name : i \in 1..Len(Adder)}
Method(m) == Adder[CHOOSE i \in 1..Len(Adder) : Adder[i].name = m]

AdderImpl(m, a) ==
  CASE m = "checked_add" -> <<"Option", Some(<<"isize", a[1][2] + a[2][2]>>)>>
    [] m = "wrapping_add" -> <<"isize", a[1][2] + a[2][2]>>
    [] m = "greet" -> <<"String", "hello">>
    [] m = "swallow" -> <<"unit">>
    [] m = "repeat_list" -> <<"Vec", a[1][2] \o a[1][2]>>
    [] m = "fail" -> <<"Result", "Err", <<"String", "tada!">>>>
    [] m = "succeed" -> <<"Result", "Ok", <<"isize", 1>>>>

(***************************************************************************)
(* The handle function generated by jsonrpc_server                          *)
(***************************************************************************)
\* serde_json::from_value(next_arg) into the argument's type succeeds
Decodes(ty, v) ==
  CASE ty = "isize" -> v[1] = "num"
    [] ty = "Vec<usize>" -> v[1] = "arr"

\* a panic: the function does not return
Panic(msg) == <<"Panic", msg>>
IsPanic(r) == r[1] = "Panic"

\* the argument expressions are evaluated left to right, one per parameter of
\* the method: each takes ordered_args.next(), which there must be, and decodes
\* it.  The first parameter for which one of the two fails, 0 when none does
FirstBad(md, ar) ==
  LET bad == {i \in 1..Len(md.args) : i > Len(ar) \/ ~Decodes(md.types[i], ar[i])}
  IN  IF bad = {} THEN 0 ELSE CHOOSE i \in bad : \A j \in bad : i <= j

\* the call of the target method with the arguments decoded from ar, b being
\* FirstBad, and try_serialize on its result.  With no value left for parameter b
\* the expect panics; with a value that does not decode InvalidArgStructure is
\* returned (its name is the identifier in double quotes, its index counts from
\* 0).  After the call debug_assert_eq panics if a value is left over (a build
\* with debug assertions, as the tests are)
TargetCall(md, ar, b) ==
  IF b # 0
    THEN IF b > Len(ar)
           THEN [res |-> Panic("RPC method Got too few args. This is a bug."),
                 inv |-> <<>>]
           ELSE [res |-> Err(into(InvalidArgStructure("\"" \o md.args[b] \o "\"", b - 1))),
                 inv |-> <<>>]
    ELSE IF Len(ar) > Len(md.args)
           THEN [res |-> Panic("assertion failed: ordered_args.next() == None"),
                 inv |-> << <<md.name, SubSeq(ar, 1, Len(md.args))>> >>]
           ELSE [res |-> try_serialize(AdderImpl(md.name, ar)),
                 inv |-> << <<md.name, ar>> >>]

\* get_rpc_args(..).map_err(|a| a.into())? and then the call
BindThenCall(md, args) ==
  IF IsErr(args)
    THEN [res |-> Err(into(args[2])), inv |-> <<>>]
    ELSE TargetCall(md, args[2], FirstBad(md, args[2]))

\* the block add_handler generates for one method: res is what the method's
\* match arm returns, inv the invocations of the target method it made
Handler(md, ps) == BindThenCall(md, get_rpc_args(md.args, ps))

\* handle with a catch-all arm that answers invalid_request
handleWrongCatchAll(m, ps) ==
  IF m \in Registered
    THEN Handler(Method(m), ps)
    ELSE [res |-> Err(invalid_request), inv |-> <<>>]

\* fn handle(&self, method, params): the match on the method name
handle(m, ps) ==
  IF m \in Registered
    THEN Handler(Method(m), ps)
    ELSE [res |-> Err(method_not_found), inv |-> <<>>]

(***************************************************************************)
(* jsonrpc_core: Id, Version, Call, Output, Request, Response               *)
(***************************************************************************)
IdNull == <<"Null">>
IdNum(n) == <<"Num", n>>
IdStr(s) == <<"Str", s>>
Ids == {IdNull, IdStr("x")} \cup {IdNum(n) : n \in 1..MaxId}

V2 == "V2"
Versions == {None, Some(V2)}

Notification(m, ps) == [kind |-> "Notification", jsonrpc |-> Some(V2), method |-> m, params |-> ps]
MethodCall(j, m, ps, id) == [kind |-> "MethodCall", jsonrpc |-> j, method |-> m, params |-> ps, id |-> id]
Invalid(id) == [kind |-> "Invalid", id |-> id]

Success(j, r, id) == [kind |-> "Success", jsonrpc |-> j, result |-> r, id |-> id]
Failure(j, e, id) == [kind |-> "Failure", jsonrpc |-> j, error |-> e, id |-> id]

Single(x) == <<"Single", x>>
Batch(xs) == <<"Batch", xs>>

(***************************************************************************)
(* JSONRPCServer::handle_call: out is the Option<Output> returned, handled  *)
(* the invocations of handle it made, invoked those of target methods,      *)
(* events what happened in order: handle entered and left, or entered and   *)
(* panicked, after which nothing is returned.                               *)
(***************************************************************************)
\* the events of one invocation of handle for the call c, h being its result
HandleEvents(c, h) ==
  << <<"enter", c.method, c.params>>,
     <<IF IsPanic(h.res) THEN "panic" ELSE "leave", c.method, c.params>> >>

Panicked(ev) == \E i \in 1..Len(ev) : ev[i][1] = "panic"

\* the Notification arm answering when handle fails
NotificationArmReportsFailure(c, h) ==
  [out |-> IF IsErr(h.res) THEN Some(Failure(Some(V2), h.res[2], IdNull)) ELSE None,
   handled |-> << <<c.method, c.params>> >>,
   invoked |-> h.inv,
   events |-> HandleEvents(c, h)]

\* the Notification arm returning None without the call of handle
NotificationArmSkipsHandle(c, h) ==
  [out |-> None, handled |-> <<>>, invoked |-> <<>>, events |-> <<>>]

\* the arm of a Notification: the result h of handle is dropped
NotificationArm(c, h) ==
  [out |-> None,
   handled |-> << <<c.method, c.params>> >>,
   invoked |-> h.inv,
   events |-> HandleEvents(c, h)]

\* the MethodCall arm answering a failure with a null id
MethodCallArmNullId(c, h) ==
  [out |-> IF IsPanic(h.res) THEN None
           ELSE Some(IF IsOk(h.res)
                       THEN Success(c.jsonrpc, h.res[2], c.id)
                       ELSE Failure(c.jsonrpc, h.res[2], IdNull)),
   handled |-> << <<c.method, c.params>> >>,
   invoked |-> h.inv,
   events |-> HandleEvents(c, h)]

\* the MethodCall arm answering a failure without a version
MethodCallArmFailureUntagged(c, h) ==
  [out |-> IF IsPanic(h.res) THEN None
           ELSE Some(IF IsOk(h.res)
                       THEN Success(c.jsonrpc, h.res[2], c.id)
                       ELSE Failure(None, h.res[2], c.id)),
   handled |-> << <<c.method, c.params>> >>,
   invoked |-> h.inv,
   events |-> HandleEvents(c, h)]

\* the arm of a MethodCall: the result h of handle is wrapped with the call's
\* jsonrpc and id
MethodCallArm(c, h) ==
  [out |-> IF IsPanic(h.res) THEN None
           ELSE Some(IF IsOk(h.res)
                       THEN Success(c.jsonrpc, h.res[2], c.id)
                       ELSE Failure(c.jsonrpc, h.res[2], c.id)),
   handled |-> << <<c.method, c.params>> >>,
   invoked |-> h.inv,
   events |-> HandleEvents(c, h)]

InvalidArm(c) ==
  [out |-> Some(Failure(Some(V2), invalid_request, c.id)),
   handled |-> <<>>,
   invoked |-> <<>>,
   events |-> <<>>]

handle_call(c) ==
  IF c.kind = "Invalid"
    THEN InvalidArm(c)
    ELSE IF c.kind = "Notification"
           THEN NotificationArm(c, handle(c.method, c.params))
           ELSE MethodCallArm(c, handle(c.method, c.params))

(***************************************************************************)
(* JSONRPCServer::handle_parsed                                             *)
(***************************************************************************)
\* Collect putting the newest output first
CollectReversed(acc, h) ==
  [outputs |-> h.out \o acc.outputs,
   handled |-> acc.handled \o h.handled,
   invoked |-> acc.invoked \o h.invoked,
   events |-> acc.events \o h.events]

\* the outputs collected so far, followed by what handling the next call gives
Collect(acc, h) ==
  [outputs |-> acc.outputs \o h.out,
   handled |-> acc.handled \o h.handled,
   invoked |-> acc.invoked \o h.invoked,
   events |-> acc.events \o h.events]

\* calls.drain(..).filter_map(|call| self.handle_call(call)).collect(): the
\* calls are handled front to back and the Some outputs kept, in that order
RECURSIVE FilterMap(_, _)
FilterMap(calls, acc) ==
  IF calls = <<>> \/ Panicked(acc.events)
    THEN acc
    ELSE FilterMap(Tail(calls), Collect(acc, handle_call(Head(calls))))

\* .map(Response::Single) on the Option<Output> of the one call
SingleArm(h) ==
  [resp |-> IF IsSome(h.out) THEN Some(Single(Unwrap(h.out))) ELSE None,
   handled |-> h.handled,
   invoked |-> h.invoked,
   events |-> h.events]

\* the Batch arm without the is_empty test
BatchArmAlwaysSome(f) ==
  [resp |-> Some(Batch(f.outputs)),
   handled |-> f.handled,
   invoked |-> f.invoked,
   events |-> f.events]

\* if outputs.is_empty() { None } else { Some(Response::Batch(outputs)) }
BatchArm(f) ==
  [resp |-> IF f.outputs = <<>> THEN None ELSE Some(Batch(f.outputs)),
   handled |-> f.handled,
   invoked |-> f.invoked,
   events |-> f.events]

handle_parsed(req) ==
  IF req[1] = "Single"
    THEN SingleArm(handle_call(req[2]))
    ELSE BatchArm(FilterMap(req[2], [outputs |-> <<>>, handled |-> <<>>,
                                     invoked |-> <<>>, events |-> <<>>]))

(***************************************************************************)
(* Request and response texts.  A text is the JSON document it spells: an   *)
(* object is a record of its members, an array of objects a sequence of     *)
(* records; a text that is no JSON document, or no document of a request,   *)
(* is "garbage" with its characters.                                        *)
(***************************************************************************)
TextGarbage(s) == <<"garbage", s>>
TextObject(o) == <<"object", o>>
TextArray(a) == <<"array", a>>

\* a JSON object with the members that are present (Some) among jsonrpc, method,
\* params and id
Doc(j, m, ps, id) ==
  LET present == {f \in {"jsonrpc", "method", "params", "id"} :
                    CASE f = "jsonrpc" -> IsSome(j)
                      [] f = "method" -> IsSome(m)
                      [] f = "params" -> IsSome(ps)
                      [] f = "id" -> IsSome(id)}
  IN  [f \in present |->
         CASE f = "jsonrpc" -> Unwrap(j)
           [] f = "method" -> Unwrap(m)
           [] f = "params" -> Unwrap(ps)
           [] f = "id" -> Unwrap(id)]

\* "params": an array, an object or null
ParamsOfJson(v) ==
  CASE v[1] = "arr" -> ParamsArray(v[2])
    [] v[1] = "map" -> ParamsMap(v[2])
    [] v[1] = "null" -> ParamsNone

\* "id": a number, a string or null
IdOfJson(v) ==
  CASE v[1] = "num" -> IdNum(v[2])
    [] v[1] = "str" -> IdStr(v[2])
    [] v[1] = "null" -> IdNull

JsonOfId(id) ==
  CASE id[1] = "Num" -> Num(id[2])
    [] id[1] = "Str" -> Str(id[2])
    [] id[1] = "Null" -> Null

\* Deserialize for Call (untagged): a MethodCall when the object has a method and
\* an id, a Notification when it has a method and no id, and Call::Invalid, with
\* the object's id or else Id::Null, for every other object
CallOfJson(o) ==
  LET ps == IF "params" \in DOMAIN o THEN ParamsOfJson(o.params) ELSE ParamsNone
      j == IF "jsonrpc" \in DOMAIN o THEN Some(V2) ELSE None
  IN  IF "method" \in DOMAIN o /\ "id" \in DOMAIN o
        THEN MethodCall(j, o.method, ps, IdOfJson(o.id))
      ELSE IF "method" \in DOMAIN o
        THEN [Notification(o.method, ps) EXCEPT !.jsonrpc = j]
      ELSE Invalid(IF "id" \in DOMAIN o THEN IdOfJson(o.id) ELSE IdNull)

\* serde_json::from_str::<Request>
from_str(text) ==
  CASE text[1] = "garbage" -> Err("expected value")
    [] text[1] = "object" -> Ok(Single(CallOfJson(text[2])))
    [] text[1] = "array" ->
         Ok(Batch([i \in 1..Len(text[2]) |-> CallOfJson(text[2][i])]))

\* Serialize for ErrorCode: the number of the code
CodeNumber(c) ==
  CASE c[1] = "ParseError" -> -32700
    [] c[1] = "InvalidRequest" -> -32600
    [] c[1] = "MethodNotFound" -> -32601
    [] c[1] = "InvalidParams" -> -32602
    [] c[1] = "InternalError" -> -32603
    [] c[1] = "ServerError" -> c[2]

\* Serialize for Error: "data" is left out when it is None
JsonOfError(e) == [code |-> CodeNumber(e.code), message |-> e.message]

\* Serialize for Output: "jsonrpc" is left out when it is None
JsonOfOutput(o) ==
  IF o.kind = "Success"
    THEN IF IsSome(o.jsonrpc)
           THEN [jsonrpc |-> "2.0", result |-> o.result, id |-> JsonOfId(o.id)]
           ELSE [result |-> o.result, id |-> JsonOfId(o.id)]
    ELSE IF IsSome(o.jsonrpc)
           THEN [jsonrpc |-> "2.0", error |-> JsonOfError(o.error), id |-> JsonOfId(o.id)]
           ELSE [error |-> JsonOfError(o.error), id |-> JsonOfId(o.id)]

\* serde_json::to_string(&response); it does not fail on a Response
to_string(r) ==
  IF r[1] = "Single"
    THEN TextObject(JsonOfOutput(r[2]))
    ELSE TextArray([i \in 1..Len(r[2]) |-> JsonOfOutput(r[2][i])])

(***************************************************************************)
(* JSONRPCServer::handle_raw                                                *)
(***************************************************************************)
\* a text that does not decode taken for an empty batch
unwrap_or_empty_batch(parsed) ==
  IF IsOk(parsed) THEN parsed[2] ELSE Batch(<<>>)

\* .unwrap_or(Request::Single(Call::Invalid { id: Id::Null }))
unwrap_or_invalid(parsed) ==
  IF IsOk(parsed) THEN parsed[2] ELSE Single(Invalid(IdNull))

\* .map(|response| serde_json::to_string(&response)...)
Render(h) ==
  [text |-> IF IsSome(h.resp) THEN Some(to_string(Unwrap(h.resp))) ELSE None,
   handled |-> h.handled,
   invoked |-> h.invoked,
   events |-> h.events]

handle_raw(text) == Render(handle_parsed(unwrap_or_invalid(from_str(text))))

(***************************************************************************)
(* The arguments the entry points are called with.                          *)
(***************************************************************************)
\* a schema is the parameter names of a Rust method: pairwise different
Schemas == {ns \in SeqsUpTo(ParamKeys, MaxArgs) :
              \A i, j \in 1..Len(ns) : i # j => ns[i] # ns[j]}

MethodNames == Registered \cup {"nonexist", "rpc.greet"}

Calls ==
  {Notification(m, ps) : m \in MethodNames, ps \in AllParams}
  \cup {MethodCall(j, m, ps, id) :
          j \in Versions, m \in MethodNames, ps \in AllParams, id \in Ids}
  \cup {Invalid(id) : id \in Ids}

\* the units of batches: every variant of Call, with a method that is registered
\* and one that is not, and a payload the method accepts and one it rejects
UnitMethods == {"wrapping_add", "nonexist"}
UnitParams == {ParamsArray(<<Num(1), Num(1)>>), ParamsNone}
Units ==
  {Notification(m, ps) : m \in UnitMethods, ps \in UnitParams}
  \cup {MethodCall(Some(V2), m, ps, IdNum(n)) :
          m \in UnitMethods, ps \in UnitParams, n \in 1..MaxId}
  \cup {Invalid(id) : id \in {IdNull, IdNum(1)}}

Requests == {Single(c) : c \in Units} \cup {Batch(cs) : cs \in SeqsUpTo(Units, MaxBatch)}

\* request texts: objects with or without each member, arrays of one or two such
\* objects, and texts that do not decode
JsonParams == {Arr(<<Num(1), Num(1)>>), Arr(<<>>), <<"map", [a |-> Num(1), b |-> Num(1)]>>, Null}
Objects ==
  {Doc(j, m, ps, id) :
     j \in {None, Some("2.0")},
     m \in {None, Some("wrapping_add"), Some("greet"), Some("nonexist")},
     ps \in {None} \cup {Some(v) : v \in JsonParams},
     id \in {None, Some(Null), Some(Num(1))}}
ArrayObjects ==
  {Doc(Some("2.0"), m, Some(Arr(<<>>)), id) :
     m \in {None, Some("greet")}, id \in {None, Some(Num(1))}}
Texts ==
  {TextGarbage(s) : s \in {"", "{", "[1,", "nul"}}
  \cup {TextObject(o) : o \in Objects}
  \cup {TextArray(a) : a \in UNION {[1..k -> ArrayObjects] : k \in 1..2}}

(***************************************************************************)
(* The state machine                                                        *)
(***************************************************************************)
Entries == {"get_rpc_args", "handle_call", "handle_parsed", "handle_raw"}

Init ==
  /\ phase = "call"
  /\ entry \in Entries
  /\ bound = None
  /\ output = None
  /\ response = None
  /\ rawOut = None
  /\ handled = <<>>
  /\ invoked = <<>>
  /\ events = <<>>
  /\ IF entry = "get_rpc_args"
       THEN names \in Schemas /\ params \in AllParams
       ELSE names = <<>> /\ params = ParamsNone
  /\ IF entry = "handle_call" THEN call \in Calls ELSE call = Invalid(IdNull)
  /\ IF entry = "handle_parsed" THEN request \in Requests ELSE request = Batch(<<>>)
  /\ IF entry = "handle_raw" THEN rawIn \in Texts ELSE rawIn = TextGarbage("")

GetRpcArgs ==
  /\ phase = "call" /\ entry = "get_rpc_args"
  /\ bound' = get_rpc_args(names, params)
  /\ phase' = "ret"
  /\ UNCHANGED <<entry, names, params, call, output, request, response, rawIn,
                 rawOut, handled, invoked, events>>

HandleCall ==
  /\ phase = "call" /\ entry = "handle_call"
  /\ \E h \in {handle_call(call)} :
       /\ output' = h.out
       /\ handled' = h.handled
       /\ invoked' = h.invoked
       /\ events' = h.events
  /\ phase' = "ret"
  /\ UNCHANGED <<entry, names, params, bound, call, request, response, rawIn, rawOut>>

HandleParsed ==
  /\ phase = "call" /\ entry = "handle_parsed"
  /\ \E h \in {handle_parsed(request)} :
       /\ response' = h.resp
       /\ handled' = h.handled
       /\ invoked' = h.invoked
       /\ events' = h.events
  /\ phase' = "ret"
  /\ UNCHANGED <<entry, names, params, bound, call, output, request, rawIn, rawOut>>

HandleRaw ==
  /\ phase = "call" /\ entry = "handle_raw"
  /\ \E h \in {handle_raw(rawIn)} :
       /\ rawOut' = h.text
       /\ handled' = h.handled
       /\ invoked' = h.invoked
       /\ events' = h.events
  /\ phase' = "ret"
  /\ UNCHANGED <<entry, names, params, bound, call, output, request, response, rawIn>>

Next == GetRpcArgs \/ HandleCall \/ HandleParsed \/ HandleRaw

Spec == Init /\ [][Next]_vars

(***************************************************************************)
(* Properties                                                               *)
(***************************************************************************)
Returned(e) == phase = "ret" /\ entry = e

\* C1: handle_call returns None for every Notification, whether its method is
\* registered and succeeds, registered and fails, or not registered.
C1_NotificationYieldsNone ==
  (Returned("handle_call") /\ call.kind = "Notification") => output = None

\* a notification of a registered method that handle rejected
C1_Witness ==
  /\ Returned("handle_call")
  /\ call.kind = "Notification"
  /\ call.method = "wrapping_add"
  /\ call.params = ParamsArray(<<Num(1)>>)
  /\ handled = << <<"wrapping_add", call.params>> >>
  /\ invoked = <<>>
  /\ output = None

IsNotification(c) == c.kind = "Notification"
IsNotNotification(c) == c.kind # "Notification"

\* the outputs of a response
Outputs(r) ==
  IF r = None THEN <<>>
  ELSE IF r[1][1] = "Batch" THEN r[1][2] ELSE <<r[1][2]>>

\* C2: handle_parsed never returns Some(Batch([])); for a Batch it returns None
\* exactly when no unit produces an output, in particular when all units are
\* notifications, and otherwise Some(Batch(outputs)) with outputs non-empty.
C2_NoEmptyBatch ==
  Returned("handle_parsed") =>
    /\ ~(IsSome(response) /\ response[1][1] = "Batch" /\ response[1][2] = <<>>)
    /\ request[1] = "Batch" =>
         /\ response = None <=>
              \A i \in 1..Len(request[2]) : handle_call(request[2][i]).out = None
         /\ (\A i \in 1..Len(request[2]) : IsNotification(request[2][i]))
              => response = None
         /\ IsSome(response) => response[1][1] = "Batch" /\ Len(response[1][2]) > 0

\* a batch of two notifications, both handled, answered by None
C2_Witness ==
  /\ Returned("handle_parsed")
  /\ request[1] = "Batch"
  /\ Len(request[2]) = 2
  /\ \A i \in 1..2 : IsNotification(request[2][i])
  /\ Len(handled) = 2
  /\ response = None

\* C3: the response batch has one output per MethodCall or Invalid unit and none
\* per Notification, in the order of the units: the k-th output is the output of
\* the k-th unit that is no notification and carries its id, whatever the
\* notifications in between do.
C3_BatchOrder ==
  (Returned("handle_parsed") /\ request[1] = "Batch") =>
    LET units == SelectSeq(request[2], IsNotNotification)
        outs == Outputs(response)
    IN  /\ Len(outs) = Len(units)
        /\ \A k \in 1..Len(units) :
             /\ outs[k].id = units[k].id
             /\ outs[k] = Unwrap(handle_call(units[k]).out)

\* scenario 5: two method calls with different ids around a notification
C3_Witness ==
  /\ Returned("handle_parsed")
  /\ request[1] = "Batch"
  /\ Len(request[2]) = 3
  /\ request[2][1].kind = "MethodCall" /\ request[2][1].id = IdNum(1)
  /\ request[2][2].kind = "Notification"
  /\ request[2][3].kind = "MethodCall" /\ request[2][3].id = IdNum(2)
  /\ IsSome(response)
  /\ Len(response[1][2]) = 2
  /\ response[1][2][1].id = IdNum(1)
  /\ response[1][2][2].id = IdNum(2)

\* C4: for a MethodCall handle_call returns Some(output) with the call's id:
\* Success with the value handle returned, or Failure with the error it returned.
C4_MethodCallOutput ==
  (Returned("handle_call") /\ call.kind = "MethodCall") =>
    /\ IsSome(output)
    /\ Unwrap(output).id = call.id
    /\ \E r \in {handle(call.method, call.params).res} :
         IF IsOk(r)
           THEN Unwrap(output).kind = "Success" /\ Unwrap(output).result = r[2]
           ELSE Unwrap(output).kind = "Failure" /\ Unwrap(output).error = r[2]

\* wrapping_add(1, 2) with id 2, answered by Success 3 with id 2
C4_Witness ==
  /\ Returned("handle_call")
  /\ call.kind = "MethodCall"
  /\ call.method = "wrapping_add"
  /\ call.params = ParamsArray(<<Num(1), Num(2)>>)
  /\ call.id = IdNum(2)
  /\ invoked = << <<"wrapping_add", <<Num(1), Num(2)>>>> >>
  /\ output = Some(Success(call.jsonrpc, Num(3), IdNum(2)))

\* C5: a MethodCall with a method name that is not registered yields a Failure
\* with the code MethodNotFound and the call's id, and no target method is
\* invoked, whatever the payload.
C5_MethodNotFound ==
  (Returned("handle_call") /\ call.kind = "MethodCall" /\ call.method \notin Registered) =>
    /\ IsSome(output)
    /\ Unwrap(output).kind = "Failure"
    /\ Unwrap(output).error.code = MethodNotFound
    /\ Unwrap(output).id = call.id
    /\ invoked = <<>>

\* the call of test::incorrect_method_name
C5_Witness ==
  /\ Returned("handle_call")
  /\ call = MethodCall(Some(V2), "nonexist", ParamsArray(<<>>), IdNum(1))
  /\ output = Some(Failure(Some(V2), method_not_found, IdNum(1)))

\* C6: for a text that does not decode as a request handle_raw returns Some(text),
\* the text of a Failure with the code of InvalidRequest and a null id; no call of
\* handle is made.
C6_MalformedText ==
  (Returned("handle_raw") /\ IsErr(from_str(rawIn))) =>
    /\ IsSome(rawOut)
    /\ Unwrap(rawOut)[1] = "object"
    /\ DOMAIN Unwrap(rawOut)[2] = {"jsonrpc", "error", "id"}
    /\ Unwrap(rawOut)[2].error.code = -32600
    /\ Unwrap(rawOut)[2].id = Null
    /\ handled = <<>>

\* the text "{" answered by the invalid-request failure
C6_Witness ==
  /\ Returned("handle_raw")
  /\ rawIn = TextGarbage("{")
  /\ rawOut = Some(TextObject([jsonrpc |-> "2.0",
                               error |-> [code |-> -32600, message |-> "Invalid request"],
                               id |-> Null]))

\* C7: a positional payload whose length differs from the schema's fails with
\* WrongNumberOfArgs whose expected is the schema length and whose actual is the
\* payload length, reported with the code InvalidParams.
C7_WrongNumberOfArgs ==
  (Returned("get_rpc_args") /\ params[1] = "Array" /\ Len(params[2]) # Len(names)) =>
    /\ IsErr(bound)
    /\ bound[2] = WrongNumberOfArgs(Len(names), Len(params[2]))
    /\ into(bound[2]).code = InvalidParams

\* the names of a registered method's schema
SchemaNames(m) == {Method(m).args[i] : i \in 1..Len(Method(m).args)}

\* a MethodCall of a registered method with a named payload has returned
NamedCall ==
  /\ Returned("handle_call")
  /\ call.kind = "MethodCall"
  /\ call.method \in Registered
  /\ call.params[1] = "Map"

\* the output is a Failure with the code InvalidParams whose message is the
\* prefix followed by one of the names
InvalidParamsNaming(prefix, ns) ==
  /\ IsSome(output)
  /\ Unwrap(output).kind = "Failure"
  /\ Unwrap(output).error.code = InvalidParams
  /\ \E k \in ns : Unwrap(output).error.message = prefix \o k

\* C8 as stated: a named payload with any key that is no name of the schema is
\* rejected with InvalidParams and the ExtraNamedParameter message, which names
\* one of the residual keys.
C8_AnyExtraKey ==
  (NamedCall /\ (DOMAIN call.params[2]) \ SchemaNames(call.method) # {}) =>
    InvalidParamsNaming("ExtraNamedParameter ",
                        (DOMAIN call.params[2]) \ SchemaNames(call.method))

\* C8, amended: a named payload that has every name of the schema and a key that
\* is no name of it is rejected with InvalidParams and the ExtraNamedParameter
\* message, which names one of the residual keys; a payload with such a key that
\* also lacks a name of the schema is rejected with InvalidParams and the
\* MissingNamedParameter message instead.
C8_ExtraKeyAfterAllNames ==
  (NamedCall /\ (DOMAIN call.params[2]) \ SchemaNames(call.method) # {}) =>
    IF SchemaNames(call.method) \subseteq DOMAIN call.params[2]
      THEN /\ InvalidParamsNaming("ExtraNamedParameter ",
                                  (DOMAIN call.params[2]) \ SchemaNames(call.method))
           /\ invoked = <<>>
      ELSE /\ InvalidParamsNaming("MissingNamedParameter ",
                                  SchemaNames(call.method) \ DOMAIN call.params[2])
           /\ invoked = <<>>

\* wrapping_add with a, b and two keys more: one of the two is reported
C8_Witness ==
  /\ NamedCall
  /\ call.method = "wrapping_add"
  /\ DOMAIN call.params[2] = {"a", "b", "lst", "notanarg"}
  /\ Unwrap(output).error.code = InvalidParams
  /\ Unwrap(output).error.message \in {"ExtraNamedParameter lst",
                                       "ExtraNamedParameter notanarg"}

\* the first name of the schema that the map lacks
FirstAbsent(nms, ma) ==
  nms[CHOOSE i \in 1..Len(nms) :
        /\ nms[i] \notin DOMAIN ma
        /\ \A j \in 1..(i - 1) : nms[j] \in DOMAIN ma]

\* C9: a named payload that lacks a name of the schema fails with
\* MissingNamedParameter{name}, name being the first name in schema order that
\* the map lacks, and a call with it is answered with the code InvalidParams.
C9_MissingNamedParameter ==
  /\ (Returned("get_rpc_args") /\ params[1] = "Map"
        /\ \E i \in 1..Len(names) : names[i] \notin DOMAIN params[2]) =>
       /\ IsErr(bound)
       /\ bound[2] = MissingNamedParameter(FirstAbsent(names, params[2]))
       /\ into(bound[2]).code = InvalidParams
  /\ (NamedCall /\ ~(SchemaNames(call.method) \subseteq DOMAIN call.params[2])) =>
       /\ InvalidParamsNaming("MissingNamedParameter ",
                              {FirstAbsent(Method(call.method).args, call.params[2])})

\* schema (b, a), a map with neither name and a key of its own: b is reported
C9_Witness ==
  /\ Returned("get_rpc_args")
  /\ names = <<"b", "a">>
  /\ params[1] = "Map"
  /\ DOMAIN params[2] = {"lst"}
  /\ bound = Err(MissingNamedParameter("b"))

\* the positional payload with the values of a map in the order of the schema
Positional(nms, ma) == ParamsArray([i \in 1..Len(nms) |-> ma[nms[i]]])

\* C10: for a map whose keys are exactly the names of the schema get_rpc_args
\* returns the mapped values in schema order, and a call with the map has the
\* output of the call with those values passed positionally.
C10_NamedEqualsPositional ==
  /\ (Returned("get_rpc_args") /\ params[1] = "Map"
        /\ DOMAIN params[2] = {names[i] : i \in 1..Len(names)}) =>
       /\ IsOk(bound)
       /\ bound[2] = [i \in 1..Len(names) |-> params[2][names[i]]]
       /\ bound = get_rpc_args(names, Positional(names, params[2]))
  /\ (NamedCall /\ DOMAIN call.params[2] = SchemaNames(call.method)) =>
       /\ output = handle_call([call EXCEPT !.params =
                     Positional(Method(call.method).args, call.params[2])]).out
       /\ \/ invoked = << <<call.method,
                            [i \in 1..Len(Method(call.method).args) |->
                               call.params[2][Method(call.method).args[i]]]>> >>
          \/ Unwrap(output).error.code = InvalidParams

\* schema (b, a) and the map {a: 1, b: 2}: the values come back as (2, 1)
C10_Witness ==
  /\ Returned("get_rpc_args")
  /\ names = <<"b", "a">>
  /\ params = ParamsMap([a |-> Num(1), b |-> Num(2)])
  /\ bound = Ok(<<Num(2), Num(1)>>)

\* wrapping_add with {a: 1, b: 2} answered like wrapping_add with [1, 2]
C10_WitnessCall ==
  /\ NamedCall
  /\ call.method = "wrapping_add"
  /\ call.params = ParamsMap([a |-> Num(1), b |-> Num(2)])
  /\ Unwrap(output).kind = "Success"
  /\ Unwrap(output).result = Num(3)

\* the empty named payload
EmptyMap == [k \in {} |-> Null]

\* C11: an absent payload is bound like the empty positional payload, for every
\* schema: to the empty list when the schema is empty, and otherwise it fails
\* with WrongNumberOfArgs; a call of a method with an empty schema has the same
\* Success output whether its payload is absent, [] or {}.
C11_AbsentIsEmptyArray ==
  /\ (Returned("get_rpc_args") /\ params = ParamsNone) =>
       /\ bound = get_rpc_args(names, ParamsArray(<<>>))
       /\ IF names = <<>>
            THEN bound = Ok(<<>>)
            ELSE IsErr(bound) /\ bound[2].kind = "WrongNumberOfArgs"
  /\ (Returned("get_rpc_args") /\ names = <<>>
        /\ params \in {ParamsArray(<<>>), ParamsMap(EmptyMap)}) =>
       bound = Ok(<<>>)
  /\ (Returned("handle_call") /\ call.kind = "MethodCall"
        /\ call.method \in Registered /\ Method(call.method).args = <<>>
        /\ call.params \in {ParamsNone, ParamsArray(<<>>), ParamsMap(EmptyMap)}) =>
       /\ IsSome(output)
       /\ Unwrap(output).kind = "Success"
       /\ invoked = << <<call.method, <<>>>> >>
       /\ output = handle_call([call EXCEPT !.params = ParamsArray(<<>>)]).out
  /\ (Returned("handle_call") /\ call.kind = "MethodCall"
        /\ call.method \in Registered /\ Method(call.method).args # <<>>
        /\ call.params = ParamsNone) =>
       /\ IsSome(output)
       /\ Unwrap(output).kind = "Failure"
       /\ Unwrap(output).error.code = InvalidParams
       /\ invoked = <<>>

\* an absent payload for the schema (a, b): rejected for its number of arguments
C11_Witness ==
  /\ Returned("get_rpc_args")
  /\ names = <<"a", "b">>
  /\ params = ParamsNone
  /\ IsErr(bound)
  /\ bound[2].kind = "WrongNumberOfArgs"

\* test::null_args: greet without params answers "hello"
C11_WitnessGreet ==
  /\ Returned("handle_call")
  /\ call = MethodCall(Some(V2), "greet", ParamsNone, IdNum(1))
  /\ output = Some(Success(Some(V2), Str("hello"), IdNum(1)))

\* C12 as stated: every output of handle_call, Success or Failure, carries the
\* version 2.0, for a MethodCall with or without a version and for an Invalid.
C12_AlwaysVersion2 ==
  (Returned("handle_call") /\ IsSome(output)) => Unwrap(output).jsonrpc = Some(V2)

\* C12, amended: the output of a MethodCall, Success or Failure, carries the
\* version of the call, 2.0 when the call carried it and none when the call
\* carried none; the output of an Invalid carries 2.0.
C12_VersionOfCall ==
  /\ (Returned("handle_call") /\ call.kind = "MethodCall") =>
       /\ IsSome(output)
       /\ Unwrap(output).jsonrpc = call.jsonrpc
       /\ call.jsonrpc = Some(V2) => Unwrap(output).jsonrpc = Some(V2)
  /\ (Returned("handle_call") /\ call.kind = "Invalid") =>
       /\ IsSome(output)
       /\ Unwrap(output).jsonrpc = Some(V2)

\* a call without a version that fails: the Failure has no version either
C12_Witness ==
  /\ Returned("handle_call")
  /\ call.kind = "MethodCall"
  /\ call.jsonrpc = None
  /\ call.method = "nonexist"
  /\ Unwrap(output).kind = "Failure"
  /\ Unwrap(output).jsonrpc = None

\* C13: when get_rpc_args returns Ok the list has as many values as the schema
\* has names, whatever the variant of the payload; so in the generated block
\* neither the expect on ordered_args.next() nor the debug_assert_eq after the
\* target call panics: every invocation of handle that is entered is left, a
\* MethodCall is answered, and a target method is invoked with one value per
\* parameter.
C13_HandleNeverAborts ==
  /\ (Returned("get_rpc_args") /\ IsOk(bound)) => Len(bound[2]) = Len(names)
  /\ phase = "ret" =>
       /\ ~Panicked(events)
       /\ Len(events) = 2 * Len(handled)
       /\ \A i \in 1..Len(invoked) :
            Len(invoked[i][2]) = Len(Method(invoked[i][1]).args)
  /\ (Returned("handle_call") /\ call.kind = "MethodCall") => IsSome(output)

\* wrapping_add with a named payload: bound to two values, called and left
C13_Witness ==
  /\ Returned("handle_call")
  /\ call.kind = "MethodCall"
  /\ call.method = "wrapping_add"
  /\ call.params = ParamsMap([a |-> Num(2), b |-> Num(1)])
  /\ invoked = << <<"wrapping_add", <<Num(2), Num(1)>>>> >>
  /\ events = << <<"enter", "wrapping_add", call.params>>,
                 <<"leave", "wrapping_add", call.params>> >>
  /\ Unwrap(output).kind = "Success"

IsDispatched(c) == c.kind # "Invalid"

\* C14: handle_parsed handles the units of a Batch one at a time in their order:
\* each Notification and each MethodCall makes one invocation of handle with its
\* method and payload, which is left before the next one is entered, and an
\* Invalid unit makes none.
C14_BatchDispatchedInOrder ==
  (Returned("handle_parsed") /\ request[1] = "Batch") =>
    LET units == SelectSeq(request[2], IsDispatched)
    IN  /\ handled = [k \in 1..Len(units) |-> <<units[k].method, units[k].params>>]
        /\ events = [j \in 1..(2 * Len(units)) |->
                       <<IF j % 2 = 1 THEN "enter" ELSE "leave",
                         units[(j + 1) \div 2].method,
                         units[(j + 1) \div 2].params>>]

\* a notification, an invalid unit and a method call: two invocations of handle,
\* the notification's first
C14_Witness ==
  /\ Returned("handle_parsed")
  /\ request[1] = "Batch"
  /\ Len(request[2]) = 3
  /\ request[2][1] = Notification("wrapping_add", ParamsArray(<<Num(1), Num(1)>>))
  /\ request[2][2].kind = "Invalid"
  /\ request[2][3].kind = "MethodCall" /\ request[2][3].method = "nonexist"
  /\ handled = << <<"wrapping_add", ParamsArray(<<Num(1), Num(1)>>)>>,
                  <<"nonexist", request[2][3].params>> >>
  /\ Len(events) = 4
  /\ invoked = << <<"wrapping_add", <<Num(1), Num(1)>>>> >>

====
